---- MODULE Spec2Model ----
(***************************************************************************)
(* SignalCraft: the regime-switching price engine, the rule-based          *)
(* auto-strategy, the position/progression ledger and the day system of    *)
(* src/app.js, with the places where the later revision of the same file   *)
(* (src/unnamed/part_000) differs selected by `variant`.                    *)
(*                                                                         *)
(* Numbers.  JavaScript numbers are modelled as exact fixed-point or       *)
(* rational values: money and prices are integers counting 1/Scale of a    *)
(* dollar, avgCost is an exact fraction [n, d] (n/d in the same unit),     *)
(* and so are nextLevelXp and a trade's profit.  Math.random() is a seeded  *)
(* generator: the seed is drawn in Init, each call returns k/RandDen for   *)
(* the current k and advances the generator.                               *)
(***************************************************************************)
EXTENDS Integers, Sequences, FiniteSets, TLC

VARIABLES
    state,       \* the `state` object of the source (one record, source field names)
    rng,         \* Math.random(): state of the generator
    pc,          \* "init": initMarket's loop is running; "run": timers and clicks
    timers,      \* pending setTimeout callbacks: set of [cb, left] (left in tick periods)
    tradeSlider, \* ui.tradeSlider.value (part_000), a percentage
    variant,     \* "app" (src/app.js) or "part_000" (src/unnamed/part_000)
    last,        \* history: the operation that produced this state
    stratCalls,  \* history: tick counts at which runAutoStrategy called buy or sell
    entryCost,   \* history: sum of amt * price of the buys of the open position
    clicks       \* history: number of user clicks so far

vars == <<state, rng, pc, timers, tradeSlider, variant, last, stratCalls, entryCost, clicks>>

----------------------------------------------------------------------------
(* Bounds of the model *)

\* fixed-point unit: 1 dollar = Scale units (a multiple of 100: cents are exact)
Scale == 10 * 10 * 10
\* Math.random() returns k / RandDen, k in 0..RandDen-1
RandDen == 20
\* ticks simulated
MaxTick == 232
\* the player clicks nothing before this tick
ActiveFrom == 205
\* user clicks in one run
MaxClicks == 2
\* days played
MaxDay == 6

----------------------------------------------------------------------------
(* CONFIG and the numeric literals of the source *)

TICK_RATE == 100
HISTORY_SIZE == 100
STARTING_BALANCE == 100
DAILY_COST == 30
WORK_INCOME == 120
\* runAutoStrategy
MIN_HISTORY == 20
SLOW_WINDOW == 50
FAST_WINDOW == 10
COOLDOWN == 20
STRATEGY_EVERY == 10
\* setTimeout delays, ms
END_DAY_DELAY == 1500
SWITCH_DELAY_APP == 3000
SWITCH_DELAY_PART == 500

REGIMES == {"RANGE", "TREND_UP", "TREND_DOWN", "VOLATILITY"}

Dollars(n) == n * Scale

\* a JavaScript number with a fractional part: n/d, reduced
RECURSIVE GCD(_, _)
GCD(a, b) == IF b = 0 THEN a ELSE GCD(b, a % b)

Abs(x) == IF x < 0 THEN -x ELSE x

Frac(n, d) ==
    IF n = 0 THEN [n |-> 0, d |-> 1]
    ELSE LET g == GCD(Abs(n), Abs(d))
             sg == IF d < 0 THEN -1 ELSE 1
         IN [n |-> sg * (n \div g), d |-> sg * (d \div g)]

----------------------------------------------------------------------------
(* Math.random *)

RngStep == RandDen \div 3 + 1

\* the i-th value (i = 1, 2, ...) Math.random() returns from generator state r
Rand(r, i) == (r + (i - 1) * RngStep) % RandDen

\* the generator after n calls
RngAfter(r, n) == (r + n * RngStep) % RandDen

\* rand(min, max) = Math.random() * (max - min) + min, floored, for draw k
randFloor(min, max, k) == min + (k * (max - min)) \div RandDen

----------------------------------------------------------------------------
(* MARKET ENGINE *)

\* volatilities 0.3, 0.5, 1.5 in price units
VOL_RANGE == (3 * Scale) \div 10
VOL_TREND == (5 * Scale) \div 10
VOL_VOLATILITY == (15 * Scale) \div 10

\* (Math.random() - 0.5) * f, f in price units, for draw k
Centered(k, f) == ((2 * k - RandDen) * f) \div (2 * RandDen)

\* mutant: the thresholds are compared with <=
pickRegimeInclusive(k) ==
    IF k * 100 <= 40 * RandDen THEN "RANGE"
    ELSE IF k * 100 <= 65 * RandDen THEN "TREND_UP"
    ELSE IF k * 100 <= 90 * RandDen THEN "TREND_DOWN"
    ELSE "VOLATILITY"

\* the regime the cumulative thresholds 0.4 / 0.65 / 0.9 select for draw k
pickRegime(k) ==
    IF k * 100 < 40 * RandDen THEN "RANGE"
    ELSE IF k * 100 < 65 * RandDen THEN "TREND_UP"
    ELSE IF k * 100 < 90 * RandDen THEN "TREND_DOWN"
    ELSE "VOLATILITY"

\* mutant: every regime is entered with volatility 0.5
switchRegimeFlatVol(s, k1, k2) ==
    LET r == pickRegime(k1)
        s1 == [s EXCEPT !.currentRegime = r,
                        !.regimeDuration = randFloor(100, 300, k2),
                        !.regimeTimer = 0,
                        !.volatility = VOL_TREND]
    IN IF r = "RANGE" THEN [s1 EXCEPT !.baseValue = s1.currentPrice] ELSE s1

\* mutant: the switch counts its own tick, regimeTimer restarts at 1
switchRegimeTimerOne(s, k1, k2) ==
    LET r == pickRegime(k1)
        s1 == [s EXCEPT !.currentRegime = r,
                        !.regimeDuration = randFloor(100, 300, k2),
                        !.regimeTimer = 1]
    IN IF r = "RANGE"
          THEN [s1 EXCEPT !.baseValue = s1.currentPrice, !.volatility = VOL_RANGE]
       ELSE IF r = "VOLATILITY"
          THEN [s1 EXCEPT !.volatility = VOL_VOLATILITY]
       ELSE [s1 EXCEPT !.volatility = VOL_TREND]

\* mutant: entering RANGE keeps the old anchor
switchRegimeKeepsBase(s, k1, k2) ==
    LET r == pickRegime(k1)
        s1 == [s EXCEPT !.currentRegime = r,
                        !.regimeDuration = randFloor(100, 300, k2),
                        !.regimeTimer = 0]
    IN IF r = "RANGE"
          THEN [s1 EXCEPT !.volatility = VOL_RANGE]
       ELSE IF r = "VOLATILITY"
          THEN [s1 EXCEPT !.volatility = VOL_VOLATILITY]
       ELSE [s1 EXCEPT !.volatility = VOL_TREND]

\* switchRegime(), drawing k1 for the regime and k2 for the duration
switchRegime(s, k1, k2) ==
    LET r == pickRegime(k1)
        s1 == [s EXCEPT !.currentRegime = r,
                        !.regimeDuration = randFloor(100, 300, k2),
                        !.regimeTimer = 0]
    IN IF r = "RANGE"
          THEN [s1 EXCEPT !.baseValue = s1.currentPrice, !.volatility = VOL_RANGE]
       ELSE IF r = "VOLATILITY"
          THEN [s1 EXCEPT !.volatility = VOL_VOLATILITY]
       ELSE [s1 EXCEPT !.volatility = VOL_TREND]

\* mutant: the switch check uses >= and fires one tick early
regimeExpiredEarly(s) == s.regimeTimer >= s.regimeDuration

\* the switch check of updateMarketLogic, on the incremented timer
regimeExpired(s) == s.regimeTimer > s.regimeDuration

\* does a call of updateMarketLogic from s switch the regime?
switches(s) == regimeExpired([s EXCEPT !.regimeTimer = @ + 1])

\* mutant: no floor
floorPriceMissing(p) == p

\* the price floor of updateMarketLogic
floorPrice(p) == IF p < Dollars(1) THEN Dollars(1) ELSE p

\* mutant: the price moves under the old regime, then the regime switches
updateMarketLogicMoveFirst(s, d) ==
    LET s0 == [s EXCEPT !.tickCount = @ + 1, !.regimeTimer = @ + 1]
        sw == regimeExpired(s0)
        i == IF sw THEN 3 ELSE 1
        noise == Centered(d[i], s0.volatility)
        change ==
            CASE s0.currentRegime = "TREND_UP" -> Scale \div 10 + noise
              [] s0.currentRegime = "TREND_DOWN" -> noise - Scale \div 10
              [] s0.currentRegime = "RANGE" ->
                    ((s0.baseValue - s0.currentPrice) * 5) \div 100 + noise
              [] s0.currentRegime = "VOLATILITY" -> Centered(d[i + 1], 3 * Scale)
        s1 == [s0 EXCEPT !.currentPrice = floorPrice(s0.currentPrice + change)]
    IN IF sw THEN switchRegime(s1, d[1], d[2]) ELSE s1

\* updateMarketLogic(); d[1], d[2], ... are the values Math.random() returns, in order
updateMarketLogic(s, d) ==
    LET s0 == [s EXCEPT !.tickCount = @ + 1, !.regimeTimer = @ + 1]
        sw == regimeExpired(s0)
        s1 == IF sw THEN switchRegime(s0, d[1], d[2]) ELSE s0
        i == IF sw THEN 3 ELSE 1
        noise == Centered(d[i], s1.volatility)
        change ==
            CASE s1.currentRegime = "TREND_UP" -> Scale \div 10 + noise
              [] s1.currentRegime = "TREND_DOWN" -> noise - Scale \div 10
              [] s1.currentRegime = "RANGE" ->
                    ((s1.baseValue - s1.currentPrice) * 5) \div 100 + noise
              [] s1.currentRegime = "VOLATILITY" -> Centered(d[i + 1], 3 * Scale)
    IN [s1 EXCEPT !.currentPrice = floorPrice(s1.currentPrice + change)]

\* how many times that call of updateMarketLogic calls Math.random()
drawsUsed(s, d) ==
    LET sw == switches(s)
        r == IF sw THEN pickRegime(d[1]) ELSE s.currentRegime
    IN (IF sw THEN 2 ELSE 0) + 1 + (IF r = "VOLATILITY" THEN 1 ELSE 0)

\* the next four values of the generator
Stream(r) == [i \in 1..4 |-> Rand(r, i)]

----------------------------------------------------------------------------
(* FEEDBACK & PROGRESSION *)

\* xp >= nextLevelXp, nextLevelXp a fraction
reachesLevel(xp, nx) == xp * nx.d >= nx.n

\* mutant: the level-up decrements the level
addXpDown(s, amount) ==
    LET x == s.xp + amount
    IN IF reachesLevel(x, s.nextLevelXp)
          THEN [s EXCEPT !.level = @ - 1,
                         !.xp = 0,
                         !.nextLevelXp = Frac(3 * @.n, 2 * @.d)]
          ELSE [s EXCEPT !.xp = x]

\* mutant: the XP above the threshold is carried into the next level
addXpCarry(s, amount) ==
    LET x == s.xp + amount
    IN IF reachesLevel(x, s.nextLevelXp)
          THEN [s EXCEPT !.level = @ + 1,
                         !.xp = (x * s.nextLevelXp.d - s.nextLevelXp.n) \div s.nextLevelXp.d,
                         !.nextLevelXp = Frac(3 * @.n, 2 * @.d)]
          ELSE [s EXCEPT !.xp = x]

\* addXp(amount)
addXp(s, amount) ==
    LET x == s.xp + amount
    IN IF reachesLevel(x, s.nextLevelXp)
          THEN [s EXCEPT !.level = @ + 1,
                         !.xp = 0,
                         !.nextLevelXp = Frac(3 * @.n, 2 * @.d)]
          ELSE [s EXCEPT !.xp = x]

Max(a, b) == IF a > b THEN a ELSE b

\* mutant: a break-even trade counts as a win
xpForBreakEvenWin(profit) ==
    IF profit.n >= 0
       THEN Max(10, profit.n \div (profit.d * Scale * 10))
       ELSE 5

\* the XP evaluateTrade awards for a profit (a fraction of price units)
xpFor(profit) ==
    IF profit.n > 0
       THEN Max(10, profit.n \div (profit.d * Scale * 10))
       ELSE 5

\* evaluateTrade(profit): the feedback text is not state
evaluateTrade(s, profit) == addXp(s, xpFor(profit))

----------------------------------------------------------------------------
(* PLAYER ACTIONS *)

\* parseFloat(x.toFixed(2)): to the nearest cent, halves away from zero
toFixed2(b) ==
    LET c == Scale \div 100
        q == (2 * Abs(b) + c) \div (2 * c)
    IN IF b < 0 THEN -(q * c) ELSE q * c

\* the share of the balance a buy deploys, in percent: all of it in app.js,
\* parseInt(ui.tradeSlider.value) in part_000
\* mutant: part_000 ignores the slider
sizingPctFull(v, slider) == 100

sizingPct(v, slider) == IF v = "app" THEN 100 ELSE slider

\* mutant: the number of shares is rounded to the nearest, not down
buyAmountNearest(s, pct) ==
    (2 * s.balance * pct + 100 * s.currentPrice) \div (200 * s.currentPrice)

\* Math.floor(availableBalance / currentPrice)
buyAmount(s, pct) == (s.balance * pct) \div (100 * s.currentPrice)

\* mutant: the average cost is the mean of the old average and the new price
buyPlainMean(s, pct) ==
    IF ~s.canTrade THEN s
    ELSE LET amt == buyAmount(s, pct)
             cost == amt * s.currentPrice
         IN IF amt <= 0 THEN s
            ELSE [s EXCEPT !.balance = @ - cost,
                           !.shares = @ + amt,
                           !.avgCost = Frac(s.avgCost.n + s.currentPrice * s.avgCost.d,
                                            2 * s.avgCost.d)]

\* mutant: no check that trading is permitted
buyUngated(s, pct) ==
    LET amt == buyAmount(s, pct)
        cost == amt * s.currentPrice
        totalVal == Frac(s.shares * s.avgCost.n + cost * s.avgCost.d, s.avgCost.d)
    IN IF amt <= 0 THEN s
       ELSE [s EXCEPT !.balance = @ - cost,
                      !.shares = @ + amt,
                      !.avgCost = Frac(totalVal.n, totalVal.d * (s.shares + amt))]

\* mutant: CONFIG.COMMISSION (0.1%) is charged on the cost
buyWithCommission(s, pct) ==
    IF ~s.canTrade THEN s
    ELSE LET amt == buyAmount(s, pct)
             cost == amt * s.currentPrice
             totalVal == Frac(s.shares * s.avgCost.n + cost * s.avgCost.d, s.avgCost.d)
         IN IF amt <= 0 THEN s
            ELSE [s EXCEPT !.balance = @ - cost - cost \div 1000,
                           !.shares = @ + amt,
                           !.avgCost = Frac(totalVal.n, totalVal.d * (s.shares + amt))]

\* buy()
buy(s, pct) ==
    IF ~s.canTrade THEN s
    ELSE LET amt == buyAmount(s, pct)
             cost == amt * s.currentPrice
             totalVal == Frac(s.shares * s.avgCost.n + cost * s.avgCost.d, s.avgCost.d)
         IN IF amt <= 0 THEN s
            ELSE [s EXCEPT !.balance = @ - cost,
                           !.shares = @ + amt,
                           !.avgCost = Frac(totalVal.n, totalVal.d * (s.shares + amt))]

\* profit = revenue - shares * avgCost, as sell() computes it
sellProfit(s) ==
    Frac(s.shares * s.currentPrice * s.avgCost.d - s.shares * s.avgCost.n, s.avgCost.d)

\* mutant: no check for an open position
sellNoGuard(s) ==
    IF ~s.canTrade THEN s
    ELSE LET revenue == s.shares * s.currentPrice
             s1 == [s EXCEPT !.balance = toFixed2(@ + revenue), !.shares = 0]
         IN evaluateTrade(s1, sellProfit(s))

\* mutant: the balance is not rounded to cents
sellNoRound(s) ==
    IF ~s.canTrade THEN s
    ELSE IF s.shares <= 0 THEN s
    ELSE LET revenue == s.shares * s.currentPrice
             s1 == [s EXCEPT !.balance = @ + revenue, !.shares = 0]
         IN evaluateTrade(s1, sellProfit(s))

\* sell()
sell(s) ==
    IF ~s.canTrade THEN s
    ELSE IF s.shares <= 0 THEN s
    ELSE LET revenue == s.shares * s.currentPrice
             s1 == [s EXCEPT !.balance = toFixed2(@ + revenue), !.shares = 0]
         IN evaluateTrade(s1, sellProfit(s))

\* mutant: the strategy button is never hidden
strategyUnlockedAlways(s) == TRUE

\* updateUI's feature unlocking: the strategy button is displayed from level 2 on
strategyUnlocked(s) == s.level >= 2

\* toggleStrategy()
toggleStrategy(s) == [s EXCEPT !.autoStrategyActive = ~@]

----------------------------------------------------------------------------
(* STRATEGY BOT *)

RECURSIVE SumFrom(_, _)
SumFrom(q, i) == IF i > Len(q) THEN 0 ELSE q[i] + SumFrom(q, i + 1)

\* sum of prices.slice(start): a negative start counts from the end
sliceSum(q, start) ==
    LET from == IF start < 0 THEN Max(Len(q) + start, 0) ELSE start
    IN SumFrom(q, from + 1)

\* maFast > maSlow
isUptrend(q) ==
    sliceSum(q, Len(q) - FAST_WINDOW) * SLOW_WINDOW
        > sliceSum(q, Len(q) - SLOW_WINDOW) * FAST_WINDOW

\* pnl = (currentPrice - avgCost) / avgCost compared with 5% and -2%;
\* avgCost = 0 gives pnl = +Infinity
takeProfit(s) ==
    IF s.avgCost.n = 0 THEN TRUE
    ELSE (s.currentPrice * s.avgCost.d - s.avgCost.n) * 100 > 5 * s.avgCost.n

\* mutant: the stop-loss waits for a loss of 5%
stopLossWide(s) ==
    IF s.avgCost.n = 0 THEN FALSE
    ELSE (s.currentPrice * s.avgCost.d - s.avgCost.n) * 100 < -5 * s.avgCost.n

stopLoss(s) ==
    IF s.avgCost.n = 0 THEN FALSE
    ELSE (s.currentPrice * s.avgCost.d - s.avgCost.n) * 100 < -2 * s.avgCost.n

\* mutant: no minimum history
tooShortNever(s) == FALSE

\* the history guard: len < 20
tooShort(s) == Len(s.prices) < MIN_HISTORY

\* mutant: the cooldown is one strategy period
coolingDownShort(s) == s.tickCount - s.lastStrategyAction < STRATEGY_EVERY

\* the cooldown guard
coolingDown(s) == s.tickCount - s.lastStrategyAction < COOLDOWN

\* mutant: the trend buy does not look at the regime
strategyCallAnyRegime(s) ==
    IF tooShort(s) THEN "none"
    ELSE IF coolingDown(s) THEN "none"
    ELSE IF s.shares = 0
       THEN IF isUptrend(s.prices) THEN "buy"
            ELSE IF s.currentRegime = "RANGE" /\ s.currentPrice * 100 < s.baseValue * 99
               THEN "buy"
            ELSE "none"
    ELSE IF takeProfit(s) \/ stopLoss(s) THEN "sell"
    ELSE "none"

\* what runAutoStrategy calls: "buy", "sell" or "none"
strategyCall(s) ==
    IF tooShort(s) THEN "none"
    ELSE IF coolingDown(s) THEN "none"
    ELSE IF s.shares = 0
       THEN IF s.currentRegime = "TREND_UP" /\ isUptrend(s.prices) THEN "buy"
            ELSE IF s.currentRegime = "RANGE" /\ s.currentPrice * 100 < s.baseValue * 99
               THEN "buy"
            ELSE "none"
    ELSE IF takeProfit(s) \/ stopLoss(s) THEN "sell"
    ELSE "none"

\* runAutoStrategy()
runAutoStrategy(s, pct) ==
    LET c == strategyCall(s)
    IN IF c = "buy" THEN [buy(s, pct) EXCEPT !.lastStrategyAction = s.tickCount]
       ELSE IF c = "sell" THEN [sell(s) EXCEPT !.lastStrategyAction = s.tickCount]
       ELSE s

\* mutant: pop() instead of shift(): the newest sample is dropped
pushPricePop(s) ==
    LET q == Append(s.prices, s.currentPrice)
    IN [s EXCEPT !.prices = IF Len(q) > HISTORY_SIZE THEN SubSeq(q, 1, Len(q) - 1) ELSE q]

\* mutant: the history is never trimmed
pushPriceKeepAll(s) == [s EXCEPT !.prices = Append(s.prices, s.currentPrice)]

\* prices.push(currentPrice), then shift() when over HISTORY_SIZE
pushPrice(s) ==
    LET q == Append(s.prices, s.currentPrice)
    IN [s EXCEPT !.prices = IF Len(q) > HISTORY_SIZE THEN Tail(q) ELSE q]

\* mutant: the strategy runs whether or not it is switched on
strategyRunsAlways(s) == s.tickCount % STRATEGY_EVERY = 0

\* does gameTick call runAutoStrategy on state s (after the market update)?
strategyRuns(s) == s.autoStrategyActive /\ s.tickCount % STRATEGY_EVERY = 0

\* gameTick(): the market update, the history, the strategy
gameTick(s, d, pct) ==
    LET s1 == pushPrice(updateMarketLogic(s, d))
    IN IF strategyRuns(s1) THEN runAutoStrategy(s1, pct) ELSE s1

\* what the strategy called in that gameTick
tickCall(s, d) ==
    LET s1 == pushPrice(updateMarketLogic(s, d))
    IN IF strategyRuns(s1) THEN strategyCall(s1) ELSE "none"

----------------------------------------------------------------------------
(* DAY-BASED SURVIVAL SYSTEM *)

\* switchScreen(screen)
switchScreen(s, screen) == [s EXCEPT !.currentScreen = screen]

\* gameOver()
gameOver(s) == switchScreen([s EXCEPT !.gameOver = TRUE], "GAMEOVER")

\* mutant: a day that ends with a balance >= 0 does not reset the streak
afterCostNoReset(s) ==
    LET b == s.balance - Dollars(DAILY_COST)
    IN [s EXCEPT !.balance = b,
                 !.negativeDaysStreak = IF b < 0 THEN @ + 1 ELSE @]

\* endDay: the balance and the streak after the daily cost
afterCost(s) ==
    LET b == s.balance - Dollars(DAILY_COST)
    IN [s EXCEPT !.balance = b,
                 !.negativeDaysStreak = IF b < 0 THEN @ + 1 ELSE 0]

\* does this endDay end the game?
endsGame(s) == afterCost(s).negativeDaysStreak >= 3

\* mutant: the survival XP in both revisions
endDayXpAlways(s, v) ==
    LET s1 == afterCost(s)
        s2 == [s1 EXCEPT !.currentDay = @ + 1,
                         !.actionTakenToday = FALSE,
                         !.canTrade = FALSE]
    IN IF s1.negativeDaysStreak >= 3 THEN gameOver(s1) ELSE addXp(s2, 10)

\* endDay(); part_000 adds the survival XP
endDay(s, v) ==
    LET s1 == afterCost(s)
        s2 == [s1 EXCEPT !.currentDay = @ + 1,
                         !.actionTakenToday = FALSE,
                         !.canTrade = FALSE]
    IN IF s1.negativeDaysStreak >= 3 THEN gameOver(s1)
       ELSE IF v = "part_000" THEN addXp(s2, 10)
       ELSE s2

\* a setTimeout of ms milliseconds, counted in tick periods
Timer(cb, ms) == [cb |-> cb, left |-> ms \div TICK_RATE]

\* the callbacks pending after endDay(): the delayed switchScreen('ACTION')
endDayTimers(s, v, t) ==
    IF endsGame(s) THEN t
    ELSE t \cup {Timer("switchAction",
                       IF v = "app" THEN SWITCH_DELAY_APP ELSE SWITCH_DELAY_PART)}

\* mutant: Work does not look at actionTakenToday
doWorkUnguarded(s, v) ==
    LET s1 == [s EXCEPT !.balance = @ + Dollars(WORK_INCOME),
                        !.actionTakenToday = TRUE]
    IN IF v = "app" THEN s1 ELSE endDay(s1, v)

\* mutant: the shift is not paid
doWorkNoPay(s, v) ==
    IF s.actionTakenToday THEN s
    ELSE LET s1 == [s EXCEPT !.actionTakenToday = TRUE]
         IN IF v = "app" THEN s1 ELSE endDay(s1, v)

\* doWork(): app.js ends the day after a delay, part_000 at once
doWork(s, v) ==
    IF s.actionTakenToday THEN s
    ELSE LET s1 == [s EXCEPT !.balance = @ + Dollars(WORK_INCOME),
                             !.actionTakenToday = TRUE]
         IN IF v = "app" THEN s1 ELSE endDay(s1, v)

\* doSleep()
doSleep(s, v) ==
    IF s.actionTakenToday THEN s
    ELSE LET s1 == [s EXCEPT !.actionTakenToday = TRUE]
         IN IF v = "app" THEN s1 ELSE endDay(s1, v)

\* the callbacks pending after doWork() or doSleep()
dayActionTimers(s, v, t) ==
    IF s.actionTakenToday THEN t
    ELSE IF v = "app" THEN t \cup {Timer("endDay", END_DAY_DELAY)}
    ELSE endDayTimers([s EXCEPT !.actionTakenToday = TRUE], v, t)

\* the callbacks pending after doWork(): the income is in the balance endDay sees
workTimers(s, v, t) ==
    IF s.actionTakenToday THEN t
    ELSE IF v = "app" THEN t \cup {Timer("endDay", END_DAY_DELAY)}
    ELSE endDayTimers([s EXCEPT !.balance = @ + Dollars(WORK_INCOME)], v, t)

\* doTrade(): part_000 neither checks nor sets actionTakenToday
doTrade(s, v) ==
    IF v = "app"
       THEN IF s.actionTakenToday THEN s
            ELSE switchScreen([s EXCEPT !.canTrade = TRUE, !.actionTakenToday = TRUE],
                              "TRADE")
       ELSE switchScreen([s EXCEPT !.canTrade = TRUE], "TRADE")

\* mutant: the restart also restarts the tick counter
restartGameNewClock(s) ==
    switchScreen([s EXCEPT !.balance = Dollars(STARTING_BALANCE),
                           !.shares = 0,
                           !.avgCost = Frac(0, 1),
                           !.level = 1,
                           !.xp = 0,
                           !.currentDay = 1,
                           !.negativeDaysStreak = 0,
                           !.gameOver = FALSE,
                           !.actionTakenToday = FALSE,
                           !.canTrade = FALSE,
                           !.autoStrategyActive = FALSE,
                           !.tickCount = 0],
                 "ACTION")

\* restartGame()
restartGame(s) ==
    switchScreen([s EXCEPT !.balance = Dollars(STARTING_BALANCE),
                           !.shares = 0,
                           !.avgCost = Frac(0, 1),
                           !.level = 1,
                           !.xp = 0,
                           !.currentDay = 1,
                           !.negativeDaysStreak = 0,
                           !.gameOver = FALSE,
                           !.actionTakenToday = FALSE,
                           !.canTrade = FALSE,
                           !.autoStrategyActive = FALSE],
                 "ACTION")

----------------------------------------------------------------------------
(* STATE and PERSISTENCE *)

\* the `state` literal
initialState ==
    [balance |-> Dollars(STARTING_BALANCE),
     shares |-> 0,
     avgCost |-> Frac(0, 1),
     level |-> 1,
     xp |-> 0,
     nextLevelXp |-> Frac(1000, 1),
     prices |-> << >>,
     currentPrice |-> Dollars(100),
     tickCount |-> 0,
     currentRegime |-> "RANGE",
     regimeTimer |-> 0,
     regimeDuration |-> 200,
     baseValue |-> Dollars(100),
     volatility |-> VOL_TREND,
     autoStrategyActive |-> FALSE,
     lastStrategyAction |-> 0,
     currentDay |-> 1,
     negativeDaysStreak |-> 0,
     gameOver |-> FALSE,
     currentScreen |-> "ACTION",
     canTrade |-> FALSE,
     actionTakenToday |-> FALSE]

\* x || dflt for a number, a string, a boolean
orNum(x, dflt) == IF x = 0 THEN dflt ELSE x
orStr(x, dflt) == IF x = "" THEN dflt ELSE x

\* the offline progress loadGame adds to the balance after `elapsed` ms
offlineProfit(balance, elapsed) ==
    LET ticks == elapsed \div TICK_RATE
        estimatedTrades == ticks \div 50
        \* estimatedTrades * balance * 0.01 * 0.2, multiplied out in two parts
    IN estimatedTrades * (balance \div 500) + (estimatedTrades * (balance % 500)) \div 500

\* saveGame(): the record written to localStorage (lastSaveTime is the clock)
saveGame(s) ==
    [balance |-> s.balance, level |-> s.level, xp |-> s.xp,
     nextLevelXp |-> s.nextLevelXp, shares |-> s.shares, avgCost |-> s.avgCost,
     autoStrategyActive |-> s.autoStrategyActive, currentScreen |-> s.currentScreen,
     currentDay |-> s.currentDay, negativeDaysStreak |-> s.negativeDaysStreak,
     gameOver |-> s.gameOver, canTrade |-> s.canTrade,
     actionTakenToday |-> s.actionTakenToday]

\* mutant: the average cost is not restored
loadGameNoCost(s, data, elapsed, v) ==
    LET s1 == [s EXCEPT !.balance = data.balance,
                        !.level = data.level,
                        !.xp = data.xp,
                        !.nextLevelXp = data.nextLevelXp,
                        !.shares = data.shares,
                        !.autoStrategyActive = data.autoStrategyActive,
                        !.currentScreen = orStr(data.currentScreen, "ACTION"),
                        !.currentDay = orNum(data.currentDay, 1),
                        !.negativeDaysStreak = orNum(data.negativeDaysStreak, 0),
                        !.gameOver = data.gameOver,
                        !.canTrade = data.canTrade,
                        !.actionTakenToday =
                            IF v = "app" THEN data.actionTakenToday ELSE FALSE]
    IN IF elapsed > 60000 /\ s1.autoStrategyActive /\ (elapsed \div TICK_RATE) \div 50 > 0
          THEN [s1 EXCEPT !.balance = @ + offlineProfit(@, elapsed)]
          ELSE s1

\* loadGame() on the record `data` saved `elapsed` ms ago
loadGame(s, data, elapsed, v) ==
    LET s1 == [s EXCEPT !.balance = data.balance,
                        !.level = data.level,
                        !.xp = data.xp,
                        !.nextLevelXp = data.nextLevelXp,
                        !.shares = data.shares,
                        !.avgCost = data.avgCost,
                        !.autoStrategyActive = data.autoStrategyActive,
                        !.currentScreen = orStr(data.currentScreen, "ACTION"),
                        !.currentDay = orNum(data.currentDay, 1),
                        !.negativeDaysStreak = orNum(data.negativeDaysStreak, 0),
                        !.gameOver = data.gameOver,
                        !.canTrade = data.canTrade,
                        !.actionTakenToday =
                            IF v = "app" THEN data.actionTakenToday ELSE FALSE]
    IN IF elapsed > 60000 /\ s1.autoStrategyActive /\ (elapsed \div TICK_RATE) \div 50 > 0
          THEN [s1 EXCEPT !.balance = @ + offlineProfit(@, elapsed)]
          ELSE s1

\* records an earlier session left in localStorage
SaveTrader ==
    [balance |-> Dollars(450), level |-> 2, xp |-> 0, nextLevelXp |-> Frac(1500, 1),
     shares |-> 0, avgCost |-> Frac(Dollars(203), 2), autoStrategyActive |-> TRUE,
     currentScreen |-> "TRADE", currentDay |-> 3, negativeDaysStreak |-> 0,
     gameOver |-> FALSE, canTrade |-> TRUE, actionTakenToday |-> TRUE]

SaveHolder ==
    [balance |-> Dollars(140), level |-> 2, xp |-> 1495, nextLevelXp |-> Frac(1500, 1),
     shares |-> 2, avgCost |-> Frac(Dollars(103), 1), autoStrategyActive |-> FALSE,
     currentScreen |-> "TRADE", currentDay |-> 4, negativeDaysStreak |-> 0,
     gameOver |-> FALSE, canTrade |-> TRUE, actionTakenToday |-> TRUE]

SaveBroke ==
    [balance |-> Dollars(-50), level |-> 2, xp |-> 20, nextLevelXp |-> Frac(1500, 1),
     shares |-> 0, avgCost |-> Frac(Dollars(99), 1), autoStrategyActive |-> FALSE,
     currentScreen |-> "ACTION", currentDay |-> 5, negativeDaysStreak |-> 2,
     gameOver |-> FALSE, canTrade |-> FALSE, actionTakenToday |-> FALSE]

SavedGames == {SaveTrader, SaveHolder, SaveBroke}

\* a losing game left with the auto-strategy on and reopened a day later
SaveIdle == [SaveBroke EXCEPT !.autoStrategyActive = TRUE]
DayAwayMs == 24 * 60 * 60 * 1000

\* time between the save and the load, ms
ElapsedMs == {0, 120000}

\* seeds of Math.random(): one for each regime the first switch can select
Seeds == {(3 * RandDen) \div 20, (8 * RandDen) \div 20,
          (13 * RandDen) \div 20, (18 * RandDen) \div 20}

SliderValues == {50, 100}

\* the states loadGame() can leave before initMarket()
Loaded(v) ==
    {initialState}
    \cup {loadGame(initialState, g, e, v) : g \in SavedGames, e \in ElapsedMs}
    \cup {loadGame(initialState, SaveIdle, DayAwayMs, v)}

----------------------------------------------------------------------------
(* History variables *)

\* the operation, what the strategy called in it, whether it changed `state`
Op(name, call, changed) == [op |-> name, call |-> call, changed |-> changed]

\* the entry cost of the open position after a step from s to s2
nextEntryCost(s, s2, ec) ==
    IF s2.shares = 0 THEN 0
    ELSE IF s2.shares > s.shares
       THEN IF ec < 0 THEN -1 ELSE ec + (s2.shares - s.shares) * s2.currentPrice
    ELSE ec

----------------------------------------------------------------------------
(* The state machine *)

Init ==
    /\ variant \in {"app", "part_000"}
    /\ state \in Loaded(variant)
    /\ rng \in Seeds
    /\ pc = "init"
    /\ timers = {}
    /\ tradeSlider = 50
    /\ last = Op("loadGame", "none", FALSE)
    /\ stratCalls = << >>
    /\ entryCost = IF state.shares = 0 THEN 0 ELSE -1
    /\ clicks = 0

pct == sizingPct(variant, tradeSlider)

\* one iteration of initMarket's loop; the loop's end starts the tick timer
InitMarketStep ==
    /\ pc = "init"
    /\ LET d == Stream(rng)
           s1 == updateMarketLogic(state, d)
       IN /\ state' = [s1 EXCEPT !.prices = Append(@, s1.currentPrice)]
          /\ rng' = RngAfter(rng, drawsUsed(state, d))
    /\ pc' = IF Len(state.prices) + 1 >= HISTORY_SIZE THEN "run" ELSE "init"
    /\ last' = Op("initMarket", "none", TRUE)
    /\ UNCHANGED <<timers, tradeSlider, variant, stratCalls, entryCost, clicks>>

due == {tm \in timers : tm.left = 0}

\* setInterval(gameTick, TICK_RATE): one tick period passes
Tick ==
    /\ pc = "run"
    /\ state.tickCount < MaxTick
    /\ due = {}
    /\ LET d == Stream(rng)
           call == tickCall(state, d)
       IN /\ state' = gameTick(state, d, pct)
          /\ rng' = RngAfter(rng, drawsUsed(state, d))
          /\ last' = Op("gameTick", call, TRUE)
          /\ stratCalls' = IF call = "none" THEN stratCalls
                           ELSE Append(stratCalls, state.tickCount + 1)
    /\ timers' = {[tm EXCEPT !.left = @ - 1] : tm \in timers}
    /\ entryCost' = nextEntryCost(state, state', entryCost)
    /\ UNCHANGED <<pc, tradeSlider, variant, clicks>>

\* a setTimeout callback comes due
TimerFires ==
    /\ pc = "run"
    /\ \E tm \in due :
        \/ /\ tm.cb = "endDay"
           /\ state' = endDay(state, variant)
           /\ timers' = endDayTimers(state, variant, timers \ {tm})
           /\ last' = Op("endDay", "none", TRUE)
        \/ /\ tm.cb = "switchAction"
           /\ state' = switchScreen(state, "ACTION")
           /\ timers' = timers \ {tm}
           /\ last' = Op("switchAction", "none", state.currentScreen # "ACTION")
    /\ entryCost' = nextEntryCost(state, state', entryCost)
    /\ UNCHANGED <<rng, pc, tradeSlider, variant, stratCalls, clicks>>

\* the player can click: the page runs, inside the window and budget of the model
canClick ==
    /\ pc = "run"
    /\ state.tickCount >= ActiveFrom
    /\ clicks < MaxClicks

\* a click whose handler takes the state to s2 and leaves the callbacks t2 pending
Click(name, s2, t2) ==
    /\ canClick
    /\ state' = s2
    /\ timers' = t2
    /\ last' = Op(name, "none", s2 # state)
    /\ clicks' = clicks + 1
    /\ entryCost' = nextEntryCost(state, s2, entryCost)
    /\ UNCHANGED <<rng, pc, tradeSlider, variant, stratCalls>>

\* the action screen's cards; part_000 disables Work and Sleep once an action is taken
ClickWork ==
    /\ state.currentScreen = "ACTION"
    /\ state.currentDay < MaxDay
    /\ variant = "part_000" => ~state.actionTakenToday
    /\ Click("doWork", doWork(state, variant), workTimers(state, variant, timers))

ClickSleep ==
    /\ state.currentScreen = "ACTION"
    /\ state.currentDay < MaxDay
    /\ variant = "part_000" => ~state.actionTakenToday
    /\ Click("doSleep", doSleep(state, variant), dayActionTimers(state, variant, timers))

ClickTrade ==
    /\ state.currentScreen = "ACTION"
    /\ Click("doTrade", doTrade(state, variant), timers)

\* the trade screen's buttons
ClickBuy ==
    /\ state.currentScreen = "TRADE"
    /\ Click("buy", buy(state, pct), timers)

ClickSell ==
    /\ state.currentScreen = "TRADE"
    /\ Click("sell", sell(state), timers)

ClickEndDay ==
    /\ state.currentScreen = "TRADE"
    /\ state.currentDay < MaxDay
    /\ Click("endDay", endDay(state, variant), endDayTimers(state, variant, timers))

\* the strategy button is displayed from level 2 on (updateUI)
ClickStrategy ==
    /\ strategyUnlocked(state)
    /\ Click("toggleStrategy", toggleStrategy(state), timers)

\* the game-over screen's button
ClickRestart ==
    /\ state.currentScreen = "GAMEOVER"
    /\ Click("restartGame", restartGame(state), timers)

\* part_000: the trade screen's back button and the amount slider
ClickTradeBack ==
    /\ variant = "part_000"
    /\ state.currentScreen = "TRADE"
    /\ Click("tradeBack", switchScreen(state, "ACTION"), timers)

MoveSlider ==
    /\ variant = "part_000"
    /\ canClick
    /\ state.currentScreen = "TRADE"
    /\ \E x \in SliderValues \ {tradeSlider} : tradeSlider' = x
    /\ last' = Op("slider", "none", FALSE)
    /\ clicks' = clicks + 1
    /\ UNCHANGED <<state, rng, pc, timers, variant, stratCalls, entryCost>>

Next ==
    \/ InitMarketStep
    \/ Tick
    \/ TimerFires
    \/ ClickWork
    \/ ClickSleep
    \/ ClickTrade
    \/ ClickBuy
    \/ ClickSell
    \/ ClickEndDay
    \/ ClickStrategy
    \/ ClickRestart
    \/ ClickTradeBack
    \/ MoveSlider

Spec == Init /\ [][Next]_vars

----------------------------------------------------------------------------
(* The market alone: gameTick with the strategy off, from market states a long *)
(* run reaches, for every value of the draws                                   *)

\* ticks simulated from each market state
MaxMarketTicks == 3

\* calls of updateMarketLogic in the regime-clock specification: the literal first
\* regime (200) and two drawn regimes of the longest duration fit
MaxRegimeTicks == 800

\* tickCount of the market states
MarketStart == 10 * HISTORY_SIZE

\* current prices: at the floor, just above it, the starting price
MarketPrices == {Dollars(1), Dollars(1) + Scale \div 20, Dollars(2), Dollars(100)}

\* regime and volatility, as switchRegime sets them
RegimeVols ==
    {<<"RANGE", VOL_RANGE>>, <<"TREND_UP", VOL_TREND>>,
     <<"TREND_DOWN", VOL_TREND>>, <<"VOLATILITY", VOL_VOLATILITY>>}

\* regimeTimer and regimeDuration: mid-regime, on the last tick of the regime, past it
RegimeClocks == {<<10, 100>>, <<99, 100>>, <<100, 100>>, <<298, 299>>, <<299, 299>>}

MarketStates ==
    {[initialState EXCEPT
        !.currentPrice = p,
        !.prices = [i \in 1..HISTORY_SIZE |-> p],
        !.tickCount = MarketStart,
        !.currentRegime = rv[1],
        !.volatility = rv[2],
        !.regimeTimer = c[1],
        !.regimeDuration = c[2],
        !.baseValue = IF rv[1] = "RANGE" \/ anchored THEN p ELSE Dollars(100)] :
     p \in MarketPrices, rv \in RegimeVols, c \in RegimeClocks,
     anchored \in BOOLEAN}

\* values of Math.random(): for the noise, and for the regime and duration of a switch
NoiseDraws == {0, RandDen \div 2, RandDen - 1}
SwitchDraws ==
    {0, (40 * RandDen) \div 100 - 1, (40 * RandDen) \div 100,
     (65 * RandDen) \div 100 - 1, (65 * RandDen) \div 100,
     (90 * RandDen) \div 100 - 1, (90 * RandDen) \div 100, RandDen - 1}

\* the values one updateMarketLogic can draw from state s (0 for a value it does
\* not draw: the second noise value is drawn in VOLATILITY only)
DrawsFor(s) ==
    IF switches(s)
       THEN {d \in {<<k1, k2, k3, k4>> : k1 \in SwitchDraws, k2 \in {0, RandDen - 1},
                                         k3 \in NoiseDraws, k4 \in NoiseDraws} :
               pickRegime(d[1]) # "VOLATILITY" => d[4] = 0}
       ELSE {d \in {<<k1, k2, 0, 0>> : k1 \in NoiseDraws, k2 \in NoiseDraws} :
               s.currentRegime # "VOLATILITY" => d[2] = 0}

MarketInit ==
    /\ variant = "app"
    /\ state \in MarketStates
    /\ rng = 0
    /\ pc = "run"
    /\ timers = {}
    /\ tradeSlider = 100
    /\ last = Op("loadGame", "none", FALSE)
    /\ stratCalls = << >>
    /\ entryCost = 0
    /\ clicks = 0

MarketTick ==
    /\ pc = "run"
    /\ state.tickCount < MarketStart + MaxMarketTicks
    /\ \E d \in DrawsFor(state) :
        /\ state' = gameTick(state, d, pct)
        /\ last' = [op |-> "gameTick", call |-> tickCall(state, d), changed |-> TRUE,
                    draws |-> d]
    /\ UNCHANGED <<rng, pc, timers, tradeSlider, variant, stratCalls, entryCost, clicks>>

SpecMarket == MarketInit /\ [][MarketTick]_vars

----------------------------------------------------------------------------
(* runAutoStrategy alone, on histories of every length *)

HistoryLengths == {0, 1, 19, 20, 21, 49, 50, 51, HISTORY_SIZE}

\* per-sample slope of the history, in price units
Slopes == {-(Scale \div 10), 0, Scale \div 10}

\* a history of n samples ending at price p
History(n, p, slope) == [i \in 1..n |-> p - (n - i) * slope]

StrategyStates ==
    {[initialState EXCEPT
        !.currentPrice = Dollars(100),
        !.prices = History(n, Dollars(100), sl),
        !.tickCount = 10 * HISTORY_SIZE,
        !.lastStrategyAction = la,
        !.currentRegime = r,
        !.baseValue = b,
        !.balance = Dollars(250),
        !.canTrade = ct,
        !.autoStrategyActive = TRUE,
        !.level = 2,
        !.nextLevelXp = Frac(1500, 1),
        !.shares = pos[1],
        !.avgCost = Frac(pos[2], 1)] :
     n \in HistoryLengths, sl \in Slopes, r \in REGIMES, ct \in BOOLEAN,
     la \in {10 * HISTORY_SIZE - COOLDOWN, 10 * HISTORY_SIZE - COOLDOWN + 1},
     b \in {Dollars(100), Dollars(102)},
     pos \in {<<0, 0>>, <<0, Dollars(90)>>, <<2, Dollars(90)>>, <<2, Dollars(95)>>,
              <<2, Dollars(96)>>, <<2, Dollars(100)>>, <<2, Dollars(102)>>,
              <<2, Dollars(103)>>}}

StrategyInit ==
    /\ variant = "app"
    /\ state \in StrategyStates
    /\ rng = 0
    /\ pc = "call"
    /\ timers = {}
    /\ tradeSlider = 100
    /\ last = Op("loadGame", "none", FALSE)
    /\ stratCalls = << >>
    /\ entryCost = IF state.shares = 0 THEN 0 ELSE -1
    /\ clicks = 0

CallStrategy ==
    /\ pc = "call"
    /\ state' = runAutoStrategy(state, pct)
    /\ pc' = "done"
    /\ last' = Op("runAutoStrategy", strategyCall(state), state' # state)
    /\ stratCalls' = IF strategyCall(state) = "none" THEN stratCalls
                     ELSE Append(stratCalls, state.tickCount)
    /\ entryCost' = nextEntryCost(state, state', entryCost)
    /\ UNCHANGED <<rng, timers, tradeSlider, variant, clicks>>

SpecStrategy == StrategyInit /\ [][CallStrategy]_vars

----------------------------------------------------------------------------
(* Persistence alone: a session is saved by saveGame (the 5 s autosave), the page *)
(* is closed and reopened, and loadGame runs on the fresh `state`                *)

\* the market fields of a running session (saveGame does not read them)
sessionMarket ==
    [initialState EXCEPT !.prices = [i \in 1..HISTORY_SIZE |-> Dollars(100)],
                         !.tickCount = MarketStart,
                         !.regimeTimer = 10,
                         !.volatility = VOL_RANGE]

\* where in the day the session is: the screen, the two flags, the pending callbacks
DayPhases(v) ==
    {[screen |-> "ACTION", canTrade |-> FALSE, taken |-> FALSE, timers |-> {}],
     [screen |-> "TRADE", canTrade |-> TRUE, taken |-> (v = "app"), timers |-> {}],
     [screen |-> "TRADE", canTrade |-> FALSE, taken |-> FALSE,
      timers |-> endDayTimers(initialState, v, {})],
     IF v = "app"
        THEN \* Work or Sleep chosen, the day end still pending
             [screen |-> "ACTION", canTrade |-> FALSE, taken |-> TRUE,
              timers |-> dayActionTimers(initialState, v, {})]
        ELSE \* back from the trade screen
             [screen |-> "ACTION", canTrade |-> TRUE, taken |-> FALSE, timers |-> {}]}

\* level, xp, nextLevelXp
SessionProgress ==
    {<<1, 0, Frac(1000, 1)>>, <<1, 995, Frac(1000, 1)>>,
     <<2, 20, Frac(1500, 1)>>, <<3, 0, Frac(2250, 1)>>}

\* shares and avgCost: flat, flat with the stale average of a closed position, long
SessionPositions ==
    {<<0, Frac(0, 1)>>, <<0, Frac(Dollars(203), 2)>>,
     <<2, Frac(Dollars(103), 1)>>, <<3, Frac(Dollars(307), 3)>>}

\* balance and negativeDaysStreak
SessionBalances ==
    {<<Dollars(-50), 2>>, <<-(Dollars(25) \div 2), 1>>, <<0, 0>>,
     <<Dollars(1234) \div 100, 0>>, <<Dollars(450), 0>>}

SessionStates(ph) ==
    {[sessionMarket EXCEPT
        !.level = pr[1], !.xp = pr[2], !.nextLevelXp = pr[3],
        !.autoStrategyActive = a,
        !.shares = pos[1], !.avgCost = pos[2],
        !.balance = b[1], !.negativeDaysStreak = b[2],
        !.currentDay = 3,
        !.currentScreen = ph.screen,
        !.canTrade = ph.canTrade,
        !.actionTakenToday = ph.taken] :
     pr \in SessionProgress, a \in BOOLEAN, pos \in SessionPositions,
     b \in SessionBalances}

\* time between the save and the load, ms
AwayMs == {0, 60000, 60000 + TICK_RATE, DayAwayMs \div 24}

PersistInit ==
    /\ variant \in {"app", "part_000"}
    /\ \E ph \in DayPhases(variant) :
          /\ state \in {s \in SessionStates(ph) : s.autoStrategyActive => s.level >= 2}
          /\ timers = ph.timers
    /\ rng = 0
    /\ pc = "session"
    /\ tradeSlider = 50
    /\ last = Op("session", "none", FALSE)
    /\ stratCalls = << >>
    /\ entryCost = IF state.shares = 0 THEN 0 ELSE -1
    /\ clicks = 0

\* saveGame(), then the reload: the `state` literal, loadGame(); callbacks are lost
SaveLoad ==
    /\ pc = "session"
    /\ \E e \in AwayMs :
          /\ state' = loadGame(initialState, saveGame(state), e, variant)
          /\ last' = [op |-> "loadGame", call |-> "none", changed |-> TRUE,
                      elapsed |-> e]
    /\ timers' = {}
    /\ pc' = "init"
    /\ UNCHANGED <<rng, tradeSlider, variant, stratCalls, entryCost, clicks>>

SpecPersist == PersistInit /\ [][SaveLoad]_vars

----------------------------------------------------------------------------
(* The position and progression ledger alone: buy, sell and addXp applied to    *)
(* ledger states, the price standing still                                      *)

LedgerPrices == {Dollars(100), Dollars(110), Dollars(99) + (335 * Scale) \div 1000,
                 Dollars(250)}

\* balances: whole cents, and the fraction of a cent loadGame's offline block leaves
LedgerBalances ==
    {Dollars(-50), 0, Dollars(100), Dollars(12) + (636 * Scale) \div 1000, Dollars(450)}

\* shares and avgCost
LedgerPositions ==
    {<<0, Frac(0, 1)>>, <<1, Frac(Dollars(100), 1)>>,
     <<3, Frac(Dollars(307), 3)>>, <<10, Frac(Dollars(100), 1)>>}

\* level, xp, nextLevelXp
LedgerProgress ==
    {<<1, 0, Frac(1000, 1)>>, <<1, 995, Frac(1000, 1)>>,
     <<2, 1400, Frac(1500, 1)>>, <<3, 0, Frac(2250, 1)>>}

LedgerStates ==
    {[sessionMarket EXCEPT
        !.currentPrice = p,
        !.balance = b,
        !.shares = pos[1], !.avgCost = pos[2],
        !.level = pr[1], !.xp = pr[2], !.nextLevelXp = pr[3],
        !.canTrade = ct,
        !.actionTakenToday = ct,
        !.currentScreen = IF ct THEN "TRADE" ELSE "ACTION"] :
     p \in LedgerPrices, b \in LedgerBalances, pos \in LedgerPositions,
     pr \in LedgerProgress, ct \in BOOLEAN}

\* amounts of XP: the awards of evaluateTrade and endDay, and larger ones
XpAmounts == {0, 5, 10, 150, 1000, 5000}

LedgerInit ==
    /\ variant \in {"app", "part_000"}
    /\ state \in LedgerStates
    /\ tradeSlider \in SliderValues
    /\ rng = 0
    /\ pc = "call"
    /\ timers = {}
    /\ last = Op("session", "none", FALSE)
    /\ stratCalls = << >>
    /\ entryCost = IF state.shares = 0 THEN 0 ELSE -1
    /\ clicks = 0

LedgerBuy ==
    /\ pc = "call"
    /\ state' = buy(state, pct)
    /\ pc' = "bought"
    /\ last' = [op |-> "buy", call |-> "none", changed |-> state' # state,
                before |-> state.balance, flat |-> state.shares = 0]
    /\ entryCost' = nextEntryCost(state, state', entryCost)
    /\ UNCHANGED <<rng, timers, tradeSlider, variant, stratCalls, clicks>>

LedgerSell ==
    /\ pc \in {"call", "bought"}
    /\ state' = sell(state)
    /\ pc' = "done"
    /\ last' = Op("sell", "none", state' # state)
    /\ entryCost' = nextEntryCost(state, state', entryCost)
    /\ UNCHANGED <<rng, timers, tradeSlider, variant, stratCalls, clicks>>

LedgerAddXp ==
    /\ pc = "call"
    /\ \E a \in XpAmounts :
          /\ state' = addXp(state, a)
          /\ last' = [op |-> "addXp", call |-> "none", changed |-> state' # state,
                      amount |-> a]
    /\ pc' = "done"
    /\ UNCHANGED <<rng, timers, tradeSlider, variant, stratCalls, entryCost, clicks>>

LedgerNext == LedgerBuy \/ LedgerSell \/ LedgerAddXp

SpecLedger == LedgerInit /\ [][LedgerNext]_vars

----------------------------------------------------------------------------
(* The regime clock over a long run: initMarket's 100 calls of updateMarketLogic, *)
(* then one per gameTick, from the `state` literal, for every seed, nobody       *)
(* playing.  `last` counts the price moves made under the current regime         *)
(* (moves), remembers how many the regime before it made (span), whether the     *)
(* call just made switched, whether the current regime was entered by a switch   *)
(* and whether the regime before it was.                                         *)

RegimeInit ==
    /\ variant = "app"
    /\ state = initialState
    /\ rng \in 0..(RandDen - 1)
    /\ pc = "init"
    /\ timers = {}
    /\ tradeSlider = 50
    /\ last = [op |-> "loadGame", call |-> "none", changed |-> FALSE,
               moves |-> 0, span |-> 0, switched |-> FALSE, entered |-> FALSE,
               drawn |-> FALSE]
    /\ stratCalls = << >>
    /\ entryCost = 0
    /\ clicks = 0

\* the history record of a call of updateMarketLogic from state s
regimeClock(op, s, l) ==
    [op |-> op, call |-> "none", changed |-> TRUE,
     moves |-> IF switches(s) THEN 1 ELSE l.moves + 1,
     span |-> IF switches(s) THEN l.moves ELSE l.span,
     switched |-> switches(s),
     entered |-> l.entered \/ switches(s),
     drawn |-> IF switches(s) THEN l.entered ELSE l.drawn]

\* one iteration of initMarket's loop
RegimeFill ==
    /\ pc = "init"
    /\ LET d == Stream(rng)
           s1 == updateMarketLogic(state, d)
       IN /\ state' = [s1 EXCEPT !.prices = Append(@, s1.currentPrice)]
          /\ rng' = RngAfter(rng, drawsUsed(state, d))
    /\ pc' = IF Len(state.prices) + 1 >= HISTORY_SIZE THEN "run" ELSE "init"
    /\ last' = regimeClock("initMarket", state, last)
    /\ UNCHANGED <<timers, tradeSlider, variant, stratCalls, entryCost, clicks>>

\* one gameTick
RegimeTick ==
    /\ pc = "run"
    /\ state.tickCount < MaxRegimeTicks
    /\ LET d == Stream(rng)
       IN /\ state' = gameTick(state, d, pct)
          /\ rng' = RngAfter(rng, drawsUsed(state, d))
    /\ last' = regimeClock("gameTick", state, last)
    /\ UNCHANGED <<pc, timers, tradeSlider, variant, stratCalls, entryCost, clicks>>

RegimeNext == RegimeFill \/ RegimeTick

SpecRegime == RegimeInit /\ [][RegimeNext]_vars

----------------------------------------------------------------------------
(* The day system alone: the action cards, the trade screen's buttons, the    *)
(* restart button and the setTimeout callbacks, in every order and at every   *)
(* spacing, the market standing still                                         *)

\* clicks of one run
MaxDayClicks == 4

\* balance ($), currentDay and negativeDaysStreak of a new game, and after three,
\* four and five nights slept through
DayStarts == {<<100, 1, 0>>, <<10, 4, 0>>, <<-20, 5, 1>>, <<-50, 6, 2>>}

\* shares, avgCost, the price and the xp: no position at the starting price, and
\* one share bought at 1.50 after a long fall, now at 2.00, one award from level 2
DayHoldings ==
    {[shares |-> 0, avgCost |-> Frac(0, 1), price |-> Dollars(100), xp |-> 0],
     [shares |-> 1, avgCost |-> Frac(Dollars(3), 2), price |-> Dollars(2), xp |-> 995]}

DayStates ==
    {[sessionMarket EXCEPT !.balance = Dollars(p[1]),
                           !.currentDay = p[2],
                           !.negativeDaysStreak = p[3],
                           !.shares = h.shares,
                           !.avgCost = h.avgCost,
                           !.xp = h.xp,
                           !.currentPrice = h.price,
                           !.prices = [i \in 1..HISTORY_SIZE |-> h.price]] :
     p \in DayStarts, h \in DayHoldings}

DayInit ==
    /\ variant \in {"app", "part_000"}
    /\ state \in DayStates
    /\ rng = 0
    /\ pc = "run"
    /\ timers = {}
    /\ tradeSlider = 50
    /\ last = Op("loadGame", "none", FALSE)
    /\ stratCalls = << >>
    /\ entryCost = IF state.shares = 0 THEN 0 ELSE -1
    /\ clicks = 0

\* one tick period passes while callbacks are pending
DayClock ==
    /\ timers # {}
    /\ due = {}
    /\ timers' = {[tm EXCEPT !.left = @ - 1] : tm \in timers}
    /\ last' = Op("clock", "none", FALSE)
    /\ UNCHANGED <<state, rng, pc, tradeSlider, variant, stratCalls, entryCost, clicks>>

\* a click whose handler takes the state to s2 and leaves the callbacks t2 pending
DayClick(name, s2, t2) ==
    /\ clicks < MaxDayClicks
    /\ state' = s2
    /\ timers' = t2
    /\ last' = Op(name, "none", s2 # state)
    /\ clicks' = clicks + 1
    /\ entryCost' = nextEntryCost(state, s2, entryCost)
    /\ UNCHANGED <<rng, pc, tradeSlider, variant, stratCalls>>

DayWork ==
    /\ state.currentScreen = "ACTION"
    /\ variant = "part_000" => ~state.actionTakenToday
    /\ DayClick("doWork", doWork(state, variant), workTimers(state, variant, timers))

DaySleep ==
    /\ state.currentScreen = "ACTION"
    /\ variant = "part_000" => ~state.actionTakenToday
    /\ DayClick("doSleep", doSleep(state, variant),
                dayActionTimers(state, variant, timers))

DayTrade ==
    /\ state.currentScreen = "ACTION"
    /\ DayClick("doTrade", doTrade(state, variant), timers)

DayBuy ==
    /\ state.currentScreen = "TRADE"
    /\ DayClick("buy", buy(state, pct), timers)

DaySell ==
    /\ state.currentScreen = "TRADE"
    /\ DayClick("sell", sell(state), timers)

DayEndDay ==
    /\ state.currentScreen = "TRADE"
    /\ DayClick("endDay", endDay(state, variant),
                endDayTimers(state, variant, timers))

DayRestart ==
    /\ state.currentScreen = "GAMEOVER"
    /\ DayClick("restartGame", restartGame(state), timers)

DayTradeBack ==
    /\ variant = "part_000"
    /\ state.currentScreen = "TRADE"
    /\ DayClick("tradeBack", switchScreen(state, "ACTION"), timers)

DayNext ==
    \/ DayClock
    \/ TimerFires
    \/ DayWork
    \/ DaySleep
    \/ DayTrade
    \/ DayBuy
    \/ DaySell
    \/ DayEndDay
    \/ DayRestart
    \/ DayTradeBack

SpecDay == DayInit /\ [][DayNext]_vars

----------------------------------------------------------------------------
(* Properties *)

\* the step just taken is a sell: the Sell button, or the strategy's call in a tick
soldIn(l) == l.op = "sell" \/ l.call = "sell"
boughtIn(l) == l.op = "buy" \/ l.call = "buy"

ledger(s) == <<s.balance, s.shares, s.avgCost, s.xp, s.level, s.nextLevelXp>>
progression(s) == <<s.level, s.xp, s.nextLevelXp>>

\* C1 (SpecMarket): after every tick, in every regime and for every value of the
\* draws, currentPrice is at least 1.
C1_PriceFloor == state.currentPrice >= Dollars(1)

\* a tick in a falling regime took a price above the floor down to the floor
C1_Witness ==
    /\ last.op = "gameTick"
    /\ state.currentPrice = Dollars(1)
    /\ state.currentRegime \in {"TREND_DOWN", "VOLATILITY"}
    /\ state.prices[HISTORY_SIZE - 1] > Dollars(1)

\* C2 (Spec): any two ticks at which runAutoStrategy calls buy or sell are at least
\* 20 ticks apart, whatever the player does in between.
C2_Cooldown ==
    \A i, j \in 1..Len(stratCalls) : i < j => stratCalls[j] - stratCalls[i] >= 20

\* two strategy calls exactly 20 ticks apart, with a click of the player in between
C2_Witness ==
    /\ Len(stratCalls) >= 2
    /\ stratCalls[2] - stratCalls[1] = 20
    /\ clicks >= 1

\* C3 as claimed: no operation, restartGame included, lowers level.
C3_Original == [][state'.level >= state.level]_vars

\* C3 (Spec), amended: every operation other than restartGame leaves level at least
\* as high as it was; restartGame sets level to 1.
C3_LevelMonotone ==
    [][/\ last'.op # "restartGame" => state'.level >= state.level
       /\ last'.op = "restartGame" => state'.level = 1]_vars

\* a level-up happened in the session (every saved game is below level 3)
C3_Witness == state.level = 3 /\ state.xp = 0 /\ last.op # "restartGame"

\* C4 (Spec): a sell with a position open and trading permitted leaves shares = 0;
\* shares stays 0 until a buy; the Sell button with shares = 0 changes nothing of
\* balance, shares, avgCost, xp, level, nextLevelXp.
C4_FullLiquidation ==
    [][/\ (soldIn(last') /\ state.shares > 0 /\ state.canTrade) => state'.shares = 0
       /\ (state.shares = 0 /\ state'.shares # 0) => boughtIn(last')
       /\ (last'.op = "sell" /\ state.shares = 0) => ledger(state') = ledger(state)]_vars

\* the Sell button pressed with trading permitted and no position, after the sell
\* that closed the saved position (and took the player to level 3)
C4_Witness ==
    /\ last.op = "sell"
    /\ ~last.changed
    /\ state.canTrade
    /\ state.shares = 0
    /\ state.level = 3
    /\ clicks = 2

\* C5 (Spec): while a position opened from shares = 0 is held, shares * avgCost is
\* the sum of amt * price over its buys.
C5_WeightedAverage ==
    (entryCost >= 0 /\ state.shares > 0)
        => state.shares * state.avgCost.n = entryCost * state.avgCost.d

\* a position built by buys at different prices: the average is between them
C5_Witness ==
    /\ entryCost > 0
    /\ state.shares >= 2
    /\ state.avgCost.d > 1

\* C6 (Spec): each initMarket iteration and each gameTick appends the new current
\* price; a tick on a full history drops exactly the oldest sample; the length never
\* exceeds HISTORY_SIZE; nothing else touches the history or the price.
C6_History ==
    [][IF last'.op \in {"gameTick", "initMarket"}
          THEN /\ Len(state'.prices) <= 100
               /\ state'.prices =
                    IF Len(state.prices) < 100
                       THEN Append(state.prices, state'.currentPrice)
                       ELSE Append(Tail(state.prices), state'.currentPrice)
          ELSE /\ state'.prices = state.prices
               /\ state'.currentPrice = state.currentPrice]_vars

\* a tick on a full history
C6_Witness ==
    /\ last.op = "gameTick"
    /\ state.tickCount > HISTORY_SIZE + 1
    /\ Len(state.prices) = HISTORY_SIZE
    /\ state.prices[HISTORY_SIZE] = state.currentPrice
    /\ state.prices[1] # state.prices[HISTORY_SIZE]

\* C7 (SpecMarket): a tick switches the regime only when the incremented regimeTimer
\* exceeds regimeDuration; the switch sets regimeTimer to 0 and regimeDuration to an
\* integer in [100, 300); any other tick leaves regime, regimeDuration, baseValue and
\* volatility unchanged.
C7_SwitchTiming ==
    [][last'.op = "gameTick" =>
         IF state.regimeTimer + 1 > state.regimeDuration
            THEN state'.regimeTimer = 0 /\ state'.regimeDuration \in 100..299
            ELSE /\ state'.regimeTimer = state.regimeTimer + 1
                 /\ state'.currentRegime = state.currentRegime
                 /\ state'.regimeDuration = state.regimeDuration
                 /\ state'.baseValue = state.baseValue
                 /\ state'.volatility = state.volatility]_vars

\* a switch has just happened
C7_Witness ==
    /\ last.op = "gameTick"
    /\ state.regimeTimer = 0
    /\ state.regimeDuration >= 290

\* the operations C8 lists as leaving the progression alone
C8_listed(s, l) ==
    \/ l.op \in {"buy", "doWork", "doSleep", "endDay", "toggleStrategy"}
    \/ l.op = "gameTick" /\ l.call # "sell"
    \/ l.op = "sell" /\ (~s.canTrade \/ s.shares = 0)

\* C8 as claimed: a tick without a sell, a buy, a rejected trade, work, sleep, endDay
\* and toggleStrategy leave level, xp and nextLevelXp unchanged.
C8_Original ==
    [][C8_listed(state, last') => progression(state') = progression(state)]_vars

\* C8 (Spec), amended: level, xp and nextLevelXp change only in a sell that closes a
\* position, in restartGame, or, in part_000, in a day end that does not end the game
\* (10 survival XP, whether the day ends by Work, Sleep or End Day).
C8_ProgressionFrame ==
    [][progression(state') # progression(state) =>
         \/ soldIn(last') /\ state.shares > 0 /\ state'.shares = 0
         \/ last'.op = "restartGame"
         \/ /\ variant = "part_000"
            /\ last'.op \in {"doWork", "doSleep", "endDay"}
            /\ state'.currentDay = state.currentDay + 1]_vars

\* a realized trade has moved the progression
C8_Witness ==
    /\ soldIn(last)
    /\ last.changed
    /\ state.shares = 0
    /\ progression(state) = <<3, 0, Frac(2250, 1)>>

\* C9 (Spec): a tick in which auto-trading is off, or whose tick count is not a
\* multiple of 10, leaves balance, shares, avgCost, xp, level and lastStrategyAction
\* unchanged.
C9_StrategyCadence ==
    [][(last'.op = "gameTick"
          /\ ~(state.autoStrategyActive /\ state'.tickCount % 10 = 0))
         => /\ ledger(state') = ledger(state)
            /\ state'.lastStrategyAction = state.lastStrategyAction]_vars

\* a strategy tick right after auto-trading was toggled off, with every condition
\* of a buy met
C9_Witness ==
    /\ last.op = "gameTick"
    /\ clicks >= 1
    /\ ~state.autoStrategyActive
    /\ state.tickCount % 10 = 0
    /\ state.level >= 2
    /\ state.canTrade
    /\ state.shares = 0
    /\ state.balance >= state.currentPrice
    /\ state.currentRegime = "TREND_UP"
    /\ isUptrend(state.prices)
    /\ state.tickCount - state.lastStrategyAction >= 20

\* C10 (SpecStrategy): runAutoStrategy on a history of fewer than 20 samples calls
\* neither buy nor sell and changes nothing.
C10_ShortHistory ==
    [][(last'.op = "runAutoStrategy" /\ Len(state.prices) < 20)
         => last'.call = "none" /\ state' = state]_vars

\* it ran on 19 samples with every other condition of a buy met
C10_Witness ==
    /\ last.op = "runAutoStrategy"
    /\ ~last.changed
    /\ Len(state.prices) = 19
    /\ state.currentRegime = "TREND_UP"
    /\ isUptrend(state.prices)
    /\ state.shares = 0
    /\ state.canTrade
    /\ state.balance >= state.currentPrice
    /\ state.tickCount - state.lastStrategyAction >= 20

\* balance, shares and avgCost
position(s) == <<s.balance, s.shares, s.avgCost>>

\* C11 (Spec): a buy, by the Buy button or by the strategy in a tick, made while
\* trading is not permitted or while the share of the balance it deploys is below
\* the price of one share leaves balance, shares and avgCost unchanged.
C11_RejectedBuy ==
    [][(boughtIn(last')
          /\ (~state.canTrade \/ state.balance * pct < 100 * state'.currentPrice))
         => position(state') = position(state)]_vars

\* the Buy button pressed with trading permitted and a negative balance
C11_Witness ==
    /\ last.op = "buy"
    /\ ~last.changed
    /\ state.canTrade
    /\ state.balance < 0

\* the fields C12 names, balance aside
C12_restored(s) ==
    <<s.shares, s.avgCost, s.level, s.xp, s.nextLevelXp, s.autoStrategyActive>>

\* C12 as claimed: the load restores all seven fields, for every elapsed time.
C12_Original ==
    [][last'.op = "loadGame"
         => /\ C12_restored(state') = C12_restored(state)
            /\ state'.balance = state.balance]_vars

\* C12 (SpecPersist), amended: the load restores shares, avgCost, level, xp,
\* nextLevelXp and autoStrategyActive to the saved values; balance is restored to the
\* saved value, plus, when more than 60 s elapsed and the auto-strategy was on, 0.2%
\* of it for every 50 tick periods elapsed.
C12_RoundTrip ==
    [][last'.op = "loadGame"
         => /\ C12_restored(state') = C12_restored(state)
            /\ state'.balance =
                  IF last'.elapsed > 60000 /\ state.autoStrategyActive
                     THEN state.balance
                          + (((last'.elapsed \div 100) \div 50) * state.balance * 2)
                                \div 1000
                     ELSE state.balance]_vars

\* a long position with a fractional average, reloaded after an hour with the
\* auto-strategy on
C12_Witness ==
    /\ last.op = "loadGame"
    /\ pc = "init"
    /\ clicks = 0
    /\ tradeSlider = 50
    /\ state.shares = 3
    /\ state.avgCost.d = 3
    /\ state.autoStrategyActive
    /\ state.balance > Dollars(450)

\* C13 as claimed: after loadGame balance, shares, avgCost, level, xp and
\* nextLevelXp are non-negative (a negative saved value is replaced by the default).
C13_Original ==
    (last.op = "loadGame" /\ pc = "init")
        => /\ state.balance >= 0
           /\ state.shares >= 0
           /\ state.avgCost.n >= 0
           /\ state.level >= 0
           /\ state.xp >= 0
           /\ state.nextLevelXp.n >= 0

\* C18 as claimed: after loadGame, with the game not over, the action screen shown
\* and no day end pending, at least one of Work, Sleep and Trade takes effect.
C18_Original ==
    (/\ last.op = "loadGame"
     /\ ~state.gameOver
     /\ state.currentScreen = "ACTION"
     /\ \A tm \in timers : tm.cb # "endDay")
        => \/ doWork(state, variant) # state
           \/ doSleep(state, variant) # state
           \/ doTrade(state, variant) # state

\* the step just taken ended a day: endDay by its timer or by the End Day button,
\* or, in part_000, Work or Sleep (which call endDay at once)
dayEnded(l) ==
    \/ l.op = "endDay"
    \/ variant = "part_000" /\ l.op \in {"doWork", "doSleep"} /\ l.changed

\* C15 (Spec): a day end deducts DAILY_COST; negativeDaysStreak grows by 1 when the
\* balance after the deduction is negative and is reset to 0 otherwise; gameOver is
\* set exactly when the streak reaches 3; a day end that does not end the game
\* advances currentDay by 1 and clears actionTakenToday and canTrade.
C15_DayEnd ==
    [][dayEnded(last') =>
         LET b == state.balance + (IF last'.op = "doWork" THEN Dollars(120) ELSE 0)
                    - Dollars(30)
         IN /\ state'.balance = b
            /\ state'.negativeDaysStreak =
                  IF b < 0 THEN state.negativeDaysStreak + 1 ELSE 0
            /\ state'.gameOver = (state.gameOver \/ state'.negativeDaysStreak >= 3)
            /\ state'.negativeDaysStreak >= 3 => state'.currentScreen = "GAMEOVER"
            /\ state'.negativeDaysStreak < 3 =>
                  /\ state'.currentDay = state.currentDay + 1
                  /\ ~state'.actionTakenToday
                  /\ ~state'.canTrade]_vars

\* the third negative day end in a row has ended the game
C15_Witness ==
    /\ last.op \in {"endDay", "doWork", "doSleep"}
    /\ state.gameOver
    /\ state.currentScreen = "GAMEOVER"
    /\ state.negativeDaysStreak = 3
    /\ state.balance < 0

endDayPending(t) == \E tm \in t : tm.cb = "endDay"

\* Work on a day with no action pays 120; the day end it triggers (at once in
\* part_000, by the pending callback in app.js, nothing else touching balance or day
\* before it) deducts 30 once and advances the day by 1 -- also when it ends the
\* game, unless exceptGameOver
C16_steps(exceptGameOver) ==
    LET advanced ==
            IF exceptGameOver /\ state'.gameOver
               THEN state'.currentDay = state.currentDay
               ELSE state'.currentDay = state.currentDay + 1
    IN /\ (last'.op = "doWork" /\ ~state.actionTakenToday) =>
            IF variant = "app"
               THEN /\ state'.balance = state.balance + Dollars(120)
                    /\ state'.currentDay = state.currentDay
                    /\ ~endDayPending(timers)
                    /\ Cardinality({tm \in timers' : tm.cb = "endDay"}) = 1
               ELSE /\ state'.balance = state.balance + Dollars(90)
                    /\ advanced
       /\ endDayPending(timers) =>
            IF last'.op = "endDay"
               THEN /\ state'.balance = state.balance - Dollars(30)
                    /\ advanced
                    /\ ~endDayPending(timers')
               ELSE /\ state'.balance = state.balance
                    /\ state'.currentDay = state.currentDay
                    /\ endDayPending(timers')

C17_LevelGate ==
    [][/\ state'.autoStrategyActive => state'.level >= 2
       /\ last'.op = "toggleStrategy" => state.level >= 2
       /\ last'.call # "none" => state.level >= 2]_vars

\* the player of the saved game without auto-trading switched the strategy on and
\* the strategy closed the saved position (which took the player to level 3)
C17_Witness ==
    /\ last.op = "gameTick"
    /\ last.call = "sell"
    /\ clicks >= 1
    /\ state.autoStrategyActive
    /\ state.level = 3
    /\ state.shares = 0

\* C19 as claimed: a tick sets lastStrategyAction (to tickCount) exactly when the
\* strategy's buy or sell changed shares.
C19_Original ==
    [][last'.op = "gameTick" =>
         IF state'.shares # state.shares
            THEN state'.lastStrategyAction = state'.tickCount
            ELSE state'.lastStrategyAction = state.lastStrategyAction]_vars

\* sum of the last k samples of q (of all of them when there are fewer)
C20_sumLast(q, k) ==
    LET n == Len(q)
        lo == IF n > k THEN n - k + 1 ELSE 1
        f[i \in 0..n] == IF i < lo THEN 0 ELSE q[i] + f[i - 1]
    IN f[n]

\* the buy rule: maFast = sum of last 10 / 10, maSlow = sum of last 50 / 50
C20_buyRule(s) ==
    \/ /\ s.currentRegime = "TREND_UP"
       /\ C20_sumLast(s.prices, 10) * 50 > C20_sumLast(s.prices, 50) * 10
    \/ /\ s.currentRegime = "RANGE"
       /\ s.currentPrice * 100 < s.baseValue * 99

\* C20 (SpecStrategy): with at least 20 samples, the cooldown elapsed and no
\* position, runAutoStrategy calls buy exactly when the buy rule holds; it never
\* calls buy with a position open or in TREND_DOWN or VOLATILITY.
C20_BuyRule ==
    [][last'.op = "runAutoStrategy" =>
         /\ (/\ Len(state.prices) >= 20
             /\ state.tickCount - state.lastStrategyAction >= 20
             /\ state.shares = 0)
               => ((last'.call = "buy") <=> C20_buyRule(state))
         /\ last'.call = "buy"
               => /\ state.shares = 0
                  /\ state.currentRegime \in {"TREND_UP", "RANGE"}]_vars

\* a mean-reversion buy in RANGE on a history with no uptrend
C20_Witness ==
    /\ last.op = "runAutoStrategy"
    /\ last.call = "buy"
    /\ last.changed
    /\ state.currentRegime = "RANGE"
    /\ state.shares > 0
    /\ ~isUptrend(state.prices)

\* pnl > 0.05 or pnl < -0.02, pnl = (currentPrice - avgCost) / avgCost, avgCost > 0
C21_exitRule(s) ==
    \/ s.currentPrice * s.avgCost.d * 100 > 105 * s.avgCost.n
    \/ s.currentPrice * s.avgCost.d * 100 < 98 * s.avgCost.n

\* C21 (SpecStrategy): when runAutoStrategy reaches its rules (at least 20 samples)
\* with the cooldown elapsed and a position open, it calls sell exactly when pnl is
\* above 5% or below -2%; otherwise it changes nothing, lastStrategyAction included.
C21_SellRule ==
    [][(/\ last'.op = "runAutoStrategy"
        /\ Len(state.prices) >= 20
        /\ state.tickCount - state.lastStrategyAction >= 20
        /\ state.shares > 0)
         => /\ (last'.call = "sell") <=> C21_exitRule(state)
            /\ ~C21_exitRule(state) => state' = state
            /\ (C21_exitRule(state) /\ state.canTrade) => state'.shares = 0]_vars

\* a position 1.96% under water is held: no call, no new cooldown
C21_Witness ==
    /\ last.op = "runAutoStrategy"
    /\ last.call = "none"
    /\ Len(state.prices) >= 20
    /\ state.tickCount - state.lastStrategyAction >= 20
    /\ state.shares = 2
    /\ state.avgCost = Frac(Dollars(102), 1)
    /\ state.canTrade

\* the strategy's buy took effect in the step
C22_bought == last'.op = "gameTick" /\ last'.call = "buy" /\ state'.shares # state.shares

\* C22 as claimed: a strategy buy that takes effect deploys the full balance.
C22_Original ==
    [][C22_bought =>
         /\ state'.shares = state.balance \div state'.currentPrice
         /\ state'.balance < state'.currentPrice]_vars

\* C22 (Spec), amended: a strategy buy that takes effect buys
\* floor(balance * share / currentPrice) shares from no position, the share being 1
\* in app.js and the trade slider's percentage in part_000; the remaining balance is
\* below currentPrice when the share is 1.
C22_StrategyBuySize ==
    [][C22_bought =>
         LET share == IF variant = "app" THEN 100 ELSE tradeSlider
             amt == (state.balance * share) \div (100 * state'.currentPrice)
         IN /\ state.shares = 0
            /\ state'.shares = amt
            /\ state'.balance = state.balance - amt * state'.currentPrice
            /\ share = 100 => state'.balance < state'.currentPrice]_vars

\* part_000, slider at 50%: the strategy bought and more than a share's price is left
C22_Witness ==
    /\ variant = "part_000"
    /\ tradeSlider = 50
    /\ last.op = "gameTick"
    /\ last.call = "buy"
    /\ state.shares > 0
    /\ state.shares >= 2
    /\ state.avgCost.d * state.currentPrice = state.avgCost.n
    /\ state.balance >= state.currentPrice

\* a sell of an open position with trading permitted
C23_sold == last'.op = "sell" /\ state.shares > 0 /\ state.canTrade

\* profit = shares * currentPrice - shares * avgCost as numerator over avgCost.d, and
\* the progression evaluateTrade leaves for it
C23_profit(s) == s.shares * (s.currentPrice * s.avgCost.d - s.avgCost.n)

C23_forwarded(s) ==
    LET gain == IF C23_profit(s) > 0
                   THEN Max(10, C23_profit(s) \div (s.avgCost.d * Scale * 10))
                   ELSE 5
    IN IF (s.xp + gain) * s.nextLevelXp.d >= s.nextLevelXp.n
          THEN <<s.level + 1, 0>>
          ELSE <<s.level, s.xp + gain>>

\* C23 as claimed: the sell adds exactly shares * currentPrice to the balance.
C23_Original ==
    [][C23_sold =>
         /\ state'.shares = 0
         /\ state'.balance = state.balance + state.shares * state.currentPrice]_vars

\* C23 (SpecLedger), amended: a sell with shares > 0 sets shares to 0, sets balance
\* to balance + shares * currentPrice rounded to the nearest cent, and forwards
\* shares * currentPrice - shares * avgCost to the progression.
C23_Liquidation ==
    [][C23_sold =>
         LET credited == state.balance + state.shares * state.currentPrice
             cent == Scale \div 100
         IN /\ state'.shares = 0
            /\ state'.balance % cent = 0
            /\ 2 * (state'.balance - credited) <= cent
            /\ 2 * (credited - state'.balance) <= cent
            /\ <<state'.level, state'.xp>> = C23_forwarded(state)]_vars

\* one share bought at 100 sold at 110 from balance 0: balance 110, profit 10, 10 XP
C23_Witness ==
    /\ last.op = "sell"
    /\ last.changed
    /\ pc = "done"
    /\ state.currentPrice = Dollars(110)
    /\ state.avgCost = Frac(Dollars(100), 1)
    /\ state.balance = Dollars(110)
    /\ state.shares = 0
    /\ state.level = 1
    /\ state.xp = 10

\* C24 (SpecLedger): a realized trade that does not level up adds to xp
\* floor(profit / 10) when that is above 10, 10 for any smaller profit > 0, and 5
\* when profit <= 0.
C24_XpAward ==
    [][(C23_sold /\ state'.level = state.level) =>
         LET won == state.currentPrice * state.avgCost.d > state.avgCost.n
             tenth == C23_profit(state) \div (state.avgCost.d * Scale * 10)
         IN state'.xp - state.xp =
               IF ~won THEN 5 ELSE IF tenth > 10 THEN tenth ELSE 10]_vars

\* a break-even trade earned 5 XP
C24_Witness ==
    /\ last.op = "sell"
    /\ last.changed
    /\ pc = "done"
    /\ state.avgCost.n = state.currentPrice * state.avgCost.d
    /\ state.level = 2
    /\ state.xp = 1405

\* the reference loop: while xp >= nextLevelXp: level += 1, xp := 0, nextLevelXp *= 1.5
RECURSIVE C25_loop(_, _, _)
C25_loop(level, xp, nx) ==
    IF xp * nx.d >= nx.n
       THEN C25_loop(level + 1, 0, Frac(3 * nx.n, 2 * nx.d))
       ELSE <<level, xp, nx>>

\* C25 (SpecLedger): from xp < nextLevelXp, addXp(amount) leaves the level, xp and
\* nextLevelXp of the reference loop run on xp + amount; the level rises by at most 1.
C25_AddXpLoop ==
    [][(last'.op = "addXp" /\ state.xp * state.nextLevelXp.d < state.nextLevelXp.n) =>
         /\ progression(state') =
               C25_loop(state.level, state.xp + last'.amount, state.nextLevelXp)
         /\ state'.level <= state.level + 1]_vars

\* an award several thresholds large: one level, the remainder discarded
C25_Witness ==
    /\ last.op = "addXp"
    /\ pc = "done"
    /\ last.amount = 5000
    /\ progression(state) = <<2, 0, Frac(1500, 1)>>

\* a sell right after a buy that took effect, the price unchanged
C30_roundTrip == last.op = "buy" /\ last.changed /\ last'.op = "sell"

\* C30 as claimed: the buy and the sell return balance to its pre-buy value.
C30_Original ==
    [][C30_roundTrip => state'.balance = last.before]_vars

\* C30 (SpecLedger), amended: with no position open before the buy, a buy followed
\* by a sell at an unchanged price returns balance to its pre-buy value rounded to
\* the nearest cent (the pre-buy value itself when it is a whole number of cents).
C30_NoCommission ==
    [][(C30_roundTrip /\ last.flat) =>
         LET cent == Scale \div 100
         IN /\ state'.balance % cent = 0
            /\ 2 * (state'.balance - last.before) <= cent
            /\ 2 * (last.before - state'.balance) <= cent]_vars

\* 450 deployed in part_000 at 50% and sold again: 450
C30_Witness ==
    /\ last.op = "sell"
    /\ last.changed
    /\ pc = "done"
    /\ variant = "part_000"
    /\ tradeSlider = 50
    /\ state.balance = Dollars(450)
    /\ state.avgCost.n = state.currentPrice * state.avgCost.d
    /\ state.currentPrice = Dollars(110)
    /\ state.xp = 5

\* the tick from `state` switches the regime
C26_switched == state.regimeTimer + 1 > state.regimeDuration

\* (u - 0.5) * f for the draw k = u * RandDen
C26_centered(k, f) == ((2 * k - RandDen) * f) \div (2 * RandDen)

\* C26 (SpecMarket): the price after a tick is the price before it plus the change
\* of the regime in force after the tick's switch, if any, floored at 1: with
\* noise = (u - 0.5) * volatility, TREND_UP 0.1 + noise, TREND_DOWN -0.1 + noise,
\* RANGE (baseValue - currentPrice) * 0.05 + noise, VOLATILITY (u' - 0.5) * 3.0.
C26_SwitchThenMove ==
    [][last'.op = "gameTick" =>
         LET i == IF C26_switched THEN 3 ELSE 1
             noise == C26_centered(last'.draws[i], state'.volatility)
             change ==
                 CASE state'.currentRegime = "TREND_UP" -> Scale \div 10 + noise
                   [] state'.currentRegime = "TREND_DOWN" -> noise - Scale \div 10
                   [] state'.currentRegime = "RANGE" ->
                        ((state'.baseValue - state.currentPrice) * 5) \div 100 + noise
                   [] state'.currentRegime = "VOLATILITY" ->
                        C26_centered(last'.draws[i + 1], 3 * Scale)
         IN state'.currentPrice = Max(Dollars(1), state.currentPrice + change)]_vars

\* a tick that switched to TREND_UP moved the price by +0.1 (zero noise)
C26_Witness ==
    /\ last.op = "gameTick"
    /\ state.regimeTimer = 0
    /\ state.currentRegime = "TREND_UP"
    /\ 2 * last.draws[3] = RandDen
    /\ state.currentPrice = state.prices[HISTORY_SIZE - 1] + Scale \div 10

\* C28 (SpecMarket): a switch sets volatility to 0.3 entering RANGE, 1.5 entering
\* VOLATILITY and 0.5 entering a trend; it sets baseValue to the price before the
\* tick's move entering RANGE and leaves it unchanged otherwise; it does not move
\* the price (entering RANGE with zero noise, the tick leaves the price where it was).
C28_RegimeEntry ==
    [][(last'.op = "gameTick" /\ C26_switched) =>
         /\ state'.volatility =
               CASE state'.currentRegime = "RANGE" -> (3 * Scale) \div 10
                 [] state'.currentRegime = "VOLATILITY" -> (15 * Scale) \div 10
                 [] OTHER -> (5 * Scale) \div 10
         /\ state'.baseValue =
               IF state'.currentRegime = "RANGE" THEN state.currentPrice
               ELSE state.baseValue
         /\ (state'.currentRegime = "RANGE" /\ 2 * last'.draws[3] = RandDen)
               => state'.currentPrice = state.currentPrice]_vars

\* RANGE entered at a price of 2 with zero noise: the anchor is 2, the price still 2
C28_Witness ==
    /\ last.op = "gameTick"
    /\ state.regimeTimer = 0
    /\ state.currentRegime = "RANGE"
    /\ 2 * last.draws[3] = RandDen
    /\ state.baseValue = Dollars(2)
    /\ state.currentPrice = Dollars(2)
    /\ state.prices[HISTORY_SIZE - 1] = Dollars(2)

\* C29 (SpecMarket): a switch selects RANGE for a draw r < 0.40, TREND_UP for
\* 0.40 <= r < 0.65, TREND_DOWN for 0.65 <= r < 0.90 and VOLATILITY for r >= 0.90,
\* whatever the regime before.
C29_RegimeChoice ==
    [][(last'.op = "gameTick" /\ C26_switched) =>
         LET k == last'.draws[1]
         IN state'.currentRegime =
               IF 5 * k < 2 * RandDen THEN "RANGE"
               ELSE IF 20 * k < 13 * RandDen THEN "TREND_UP"
               ELSE IF 10 * k < 9 * RandDen THEN "TREND_DOWN"
               ELSE "VOLATILITY"]_vars

\* a draw of exactly 0.40 selected TREND_UP
C29_Witness ==
    /\ last.op = "gameTick"
    /\ state.regimeTimer = 0
    /\ 5 * last.draws[1] = 2 * RandDen
    /\ state.currentRegime = "TREND_UP"

\* C27 (SpecRegime): after every call of updateMarketLogic 0 <= regimeTimer <=
\* regimeDuration; a regime has made at most 300 price moves; and when a call
\* switches away from a regime that a switch had entered, that regime made exactly
\* regimeDuration + 1 price moves, one more than the duration drawn for it.
C27_RegimeSpan ==
    [][last'.op \in {"initMarket", "gameTick"} =>
         /\ 0 <= state'.regimeTimer
         /\ state'.regimeTimer <= state'.regimeDuration
         /\ last'.moves <= 300
         /\ (last'.switched /\ last'.drawn) =>
               /\ last'.span = state.regimeDuration + 1
               /\ state.regimeDuration >= 100
               /\ state.regimeDuration < 300
               /\ last.moves = last'.span]_vars

\* a regime drawn with the longest duration has been replaced after one move more
C27_Witness ==
    /\ last.op = "gameTick"
    /\ last.switched
    /\ last.drawn
    /\ last.span = randFloor(100, 300, RandDen - 1) + 1
    /\ state.regimeTimer = 0

\* the endDay callbacks pending in t
C31_pending(t) == {tm \in t : tm.cb = "endDay"}

\* C31 (SpecDay): doWork and doSleep called while actionTakenToday is true change
\* nothing and schedule nothing; one that takes effect finds no day end pending and
\* leaves exactly one pending with the flag set (app.js) or ends the day at once
\* (part_000); a pending day end goes away only by running, and the flag is
\* cleared only by a day end or restartGame: between two day ends at most one Work or
\* Sleep takes effect.
C31_OneActionPerDay ==
    [][/\ last'.op \in {"doWork", "doSleep"} =>
            IF state.actionTakenToday
               THEN state' = state /\ timers' = timers
               ELSE /\ C31_pending(timers) = {}
                    /\ IF variant = "app"
                          THEN /\ state'.actionTakenToday
                               /\ state'.currentDay = state.currentDay
                               /\ Cardinality(C31_pending(timers')) = 1
                          ELSE /\ C31_pending(timers') = {}
                               /\ \/ state'.currentDay = state.currentDay + 1
                                  \/ state'.currentScreen = "GAMEOVER"
       /\ Cardinality(C31_pending(timers')) < Cardinality(C31_pending(timers))
            => last'.op = "endDay"
       /\ (state.actionTakenToday /\ ~state'.actionTakenToday)
            => last'.op \in {"endDay", "restartGame"}]_vars

\* Work clicked again during the delay before the day end: nothing happened
C31_Witness ==
    /\ variant = "app"
    /\ last.op = "doWork"
    /\ ~last.changed
    /\ state.actionTakenToday
    /\ \E tm \in timers : tm.cb = "endDay" /\ tm.left < END_DAY_DELAY \div TICK_RATE

\* C32 (SpecDay), as stated: while gameOver is true the screen is GAMEOVER
C32_Original == state.gameOver => state.currentScreen = "GAMEOVER"

\* C33 (SpecDay), as stated: gameOver is true exactly when negativeDaysStreak >= 3
C33_Original == state.gameOver <=> state.negativeDaysStreak >= 3

\* b^k
RECURSIVE C34_pow(_, _)
C34_pow(b, k) == IF k = 0 THEN 1 ELSE b * C34_pow(b, k - 1)

\* C34 (SpecDay), as stated: nextLevelXp = 1000 * 1.5^(level - 1) in every state
C34_Original ==
    state.nextLevelXp.n * C34_pow(2, state.level - 1)
        = 1000 * C34_pow(3, state.level - 1) * state.nextLevelXp.d

\* the volatility switchRegime gives regime r
C35_entryVolatility(r) ==
    CASE r = "RANGE" -> (3 * Scale) \div 10
      [] r = "VOLATILITY" -> (15 * Scale) \div 10
      [] OTHER -> (5 * Scale) \div 10

\* C35 as claimed: volatility matches the regime in every state, the first included
C35_Original == state.volatility = C35_entryVolatility(state.currentRegime)

\* C35 (SpecRegime), amended: once a switch has entered the current regime,
\* volatility is 0.3 in RANGE, 1.5 in VOLATILITY and 0.5 in a trend; until the
\* first switch (the first 200 calls of updateMarketLogic) the regime is RANGE
\* with the volatility 0.5 of the state literal.
C35_VolatilityByRegime ==
    IF last.entered
       THEN state.volatility = C35_entryVolatility(state.currentRegime)
       ELSE /\ state.currentRegime = "RANGE"
            /\ state.volatility = (5 * Scale) \div 10
            /\ state.tickCount <= 200

\* RANGE entered by a switch: the volatility is 0.3
C35_Witness ==
    /\ last.entered
    /\ state.currentRegime = "RANGE"
    /\ state.volatility = (3 * Scale) \div 10
    /\ state.regimeTimer > 0

\* the market fields of s
C36_market(s) ==
    <<s.currentPrice, s.currentRegime, s.regimeTimer, s.regimeDuration, s.baseValue,
      s.volatility, s.tickCount, s.prices, s.lastStrategyAction>>

\* C36 (Spec): loadGame leaves the market fields as the state literal has them;
\* every step other than a call of updateMarketLogic (initMarket's loop, gameTick)
\* leaves currentPrice, currentRegime, regimeTimer, regimeDuration, baseValue,
\* volatility, tickCount, prices and lastStrategyAction unchanged; tickCount never
\* decreases; lastStrategyAction <= tickCount in every state.
C36_MarketFrame ==
    /\ [](last.op = "loadGame" => C36_market(state) = C36_market(initialState))
    /\ [](state.lastStrategyAction <= state.tickCount)
    /\ [][/\ last'.op \notin {"initMarket", "gameTick"}
               => C36_market(state') = C36_market(state)
          /\ state'.tickCount >= state.tickCount]_vars

\* the game was restarted with the market running and its history full
C36_Witness ==
    /\ last.op = "restartGame"
    /\ state.tickCount >= ActiveFrom
    /\ Len(state.prices) = HISTORY_SIZE
    /\ state.currentDay = 1

RECURSIVE C38_sum(_, _, _)
C38_sum(q, lo, hi) == IF lo > hi THEN 0 ELSE q[lo] + C38_sum(q, lo + 1, hi)

\* C38 (Spec): every gameTick finds and leaves a history of exactly 100 samples, so
\* when it calls runAutoStrategy the len < 20 guard does not fire, maSlow sums
\* exactly the last 50 samples (51..100) and maFast exactly the last 10 (91..100).
C38_FullHistory ==
    [][last'.op = "gameTick" =>
         /\ Len(state.prices) = 100
         /\ Len(state'.prices) = 100
         /\ (state'.autoStrategyActive /\ state'.tickCount % 10 = 0) =>
               /\ ~tooShort(state')
               /\ sliceSum(state'.prices, Len(state'.prices) - 50)
                     = C38_sum(state'.prices, 51, 100)
               /\ sliceSum(state'.prices, Len(state'.prices) - 10)
                     = C38_sum(state'.prices, 91, 100)]_vars

\* the strategy was called in a tick, on a history whose windows differ
C38_Witness ==
    /\ last.op = "gameTick"
    /\ state.autoStrategyActive
    /\ state.tickCount % 10 = 0
    /\ state.tickCount > HISTORY_SIZE
    /\ Len(state.prices) = 100
    /\ C38_sum(state.prices, 51, 100) # 5 * C38_sum(state.prices, 91, 100)

====
